---------------------------- MODULE Spec2Model ----------------------------
(***************************************************************************)
(* Model of src/infinitum/main.py: the identifier assigner (_slug,         *)
(* _ensure_ids) and the /api/visualize handler with its two process-wide   *)
(* dictionaries (visualization_cache, user_daily_limits), and the          *)
(* /api/visualize/eligibility handler.                                     *)
(*                                                                         *)
(* Python strings are modelled as sequences of one-character strings, so   *)
(* that slugifying, splitting, stripping and concatenation are computed    *)
(* character by character as the code computes them.                       *)
(***************************************************************************)
EXTENDS Integers, Sequences, FiniteSets, TLC

VARIABLES
    \* ---- _ensure_ids: one call, and one more call on what it returned
    idPhase,    \* "off" | "input" | "done" | "again"
    idNodes,    \* the argument `nodes`: a forest of raw nodes
    idSeen0,    \* the argument `seen` as it is at call time
    idPrefix,   \* the argument `prefix`
    idOut,      \* the returned list `out`
    idSeen,     \* `seen` after the call
    idAgain,    \* the list returned by the call on idOut
    \* ---- the caption rules of visualize (lines 746-761), applied once
    capPhase,   \* "off" | "input" | "done"
    capRaw,     \* planning_result.get("caption", "")
    capTitle,   \* node.get("title", "")
    capOut,     \* `caption` when line 761 is done
    \* ---- the /api/visualize handler and the process-wide state
    visualization_cache,  \* cache_key -> [imageUrl, caption]
    user_daily_limits,    \* user_key -> number of counted visualizations
    today,                \* datetime.date.today(), as a day number
    req,                  \* per serving thread: the in-flight request
    response,             \* the response returned last, with its request
    served,               \* number of responses returned so far
    firstResult,          \* history: triple -> the first artifact returned
    \* ---- the /api/visualize/eligibility handler
    elig,                 \* the in-flight eligibility request
    eligResponse          \* the eligibility response returned last

idVars == <<idPhase, idNodes, idSeen0, idPrefix, idOut, idSeen, idAgain>>

capVars == <<capPhase, capRaw, capTitle, capOut>>

vizVars == <<visualization_cache, user_daily_limits, today, req, response,
             served, firstResult>>

eligVars == <<elig, eligResponse>>

vars == <<idVars, capVars, vizVars, eligVars>>

-----------------------------------------------------------------------------
(* Strings                                                                 *)

\* "abc" as <<"a","b","c">>; the empty string is <<>>.
Whitespace == {" "}

\* [a-z0-9]: the characters re.sub(r"[^a-z0-9\s/\-]", "", s) keeps, besides
\* whitespace, "/" and "-".
LowerAlnum ==
    {"a","b","c","d","e","f","g","h","i","j","k","l","m","n","o","p","q","r",
     "s","t","u","v","w","x","y","z","0","1","2","3","4","5","6","7","8","9"}

\* str.lower() on one character (the upper-case letters the inputs use).
LowerChar(c) ==
    CASE c = "A" -> "a"
      [] c = "B" -> "b"
      [] c = "O" -> "o"
      [] c = "T" -> "t"
      [] c = "V" -> "v"
      [] OTHER   -> c

Lower(s) == [i \in 1..Len(s) |-> LowerChar(s[i])]

RECURSIVE LStrip(_, _)
LStrip(s, cs) ==
    IF s # <<>> /\ Head(s) \in cs THEN LStrip(Tail(s), cs) ELSE s

RECURSIVE RStrip(_, _)
RStrip(s, cs) ==
    IF s # <<>> /\ s[Len(s)] \in cs
    THEN RStrip(SubSeq(s, 1, Len(s) - 1), cs)
    ELSE s

\* str.strip(chars): both ends.
StripChars(s, cs) == RStrip(LStrip(s, cs), cs)

\* re.sub(r"[cs]+", r, s): every maximal run of characters of cs becomes r.
RECURSIVE SubRuns(_, _, _)
SubRuns(s, cs, r) ==
    IF s = <<>> THEN <<>>
    ELSE IF Head(s) \in cs
         THEN <<r>> \o SubRuns(LStrip(s, cs), cs, r)
         ELSE <<Head(s)>> \o SubRuns(Tail(s), cs, r)

\* str.split(sep) for a one-character sep: the pieces between the separators,
\* empty pieces included.
RECURSIVE PySplit(_, _)
PySplit(s, sep) ==
    IF \A i \in 1..Len(s) : s[i] # sep
    THEN <<s>>
    ELSE LET k == CHOOSE i \in 1..Len(s) :
                      s[i] = sep /\ \A j \in 1..(i - 1) : s[j] # sep
         IN  <<SubSeq(s, 1, k - 1)>> \o PySplit(SubSeq(s, k + 1, Len(s)), sep)

\* str.split(): the maximal runs of non-whitespace characters.
RECURSIVE PyWords(_)
PyWords(s) ==
    LET t == LStrip(s, Whitespace)
    IN  IF t = <<>> THEN <<>>
        ELSE LET n == IF \E i \in 1..Len(t) : t[i] \in Whitespace
                      THEN (CHOOSE i \in 1..Len(t) :
                               t[i] \in Whitespace
                               /\ \A j \in 1..(i - 1) : t[j] \notin Whitespace) - 1
                      ELSE Len(t)
             IN  <<SubSeq(t, 1, n)>> \o PyWords(SubSeq(t, n + 1, Len(t)))

\* ' '.join(words)
RECURSIVE JoinSpace(_)
JoinSpace(words) ==
    IF words = <<>> THEN <<>>
    ELSE IF Len(words) = 1 THEN words[1]
    ELSE words[1] \o <<" ">> \o JoinSpace(Tail(words))

\* str.endswith(c) for one character.
EndsWith(s, c) == s # <<>> /\ s[Len(s)] = c

IsSlugChar(c) == c \in LowerAlnum \cup Whitespace \cup {"/", "-"}

-----------------------------------------------------------------------------
(* _slug and _ensure_ids                                                   *)

\* _slug(s): lower, strip, drop the characters outside [a-z0-9\s/\-],
\* whitespace runs to "-", hyphen runs to one "-".
_slug(s) ==
    LET s1 == StripChars(Lower(s), Whitespace)
        s2 == SelectSeq(s1, IsSlugChar)
        s3 == SubRuns(s2, Whitespace, "-")
    IN  SubRuns(s3, {"-"}, "-")

HexDigits == <<"0","1","2","3","4","5","6","7","8","9","a","b","c","d","e","f">>

\* Length of the suffix: uuid.uuid4().hex[:4].
SuffixLen == 4

\* Number of different values the model lets uuid.uuid4().hex[:4] take.
NumSuffixes == 2

\* The values uuid.uuid4().hex[:4] takes: 0000, 0001, ... (SuffixLen
\* hexadecimal characters, the last one among the first NumSuffixes digits).
Suffixes ==
    { [i \in 1..SuffixLen |-> IF i = SuffixLen THEN HexDigits[d] ELSE "0"]
      : d \in 1..NumSuffixes }

\* Line 41 with the explicit id slugified as well.
Candidate_SlugsId(n, prefix) ==
    IF n.id # <<>>
    THEN _slug(n.id)
    ELSE StripChars(_slug(prefix \o <<"/">> \o n.title), {"/"})

\* nid = str(n.get("id") or _slug(f"{prefix}/{title}").strip("/")):
\* a missing, None or empty id is falsy and gives way to the slug.
Candidate(n, prefix) ==
    IF n.id # <<>>
    THEN n.id
    ELSE StripChars(_slug(prefix \o <<"/">> \o n.title), {"/"})

\* The ids the node can end up with: the candidate when it is not in seen,
\* otherwise the candidate, "-" and ONE draw of the random suffix (line 43
\* draws once and does not look at seen again).
Resolved(cand, seen) ==
    IF cand \in seen
    THEN {cand \o <<"-">> \o sfx : sfx \in Suffixes}
    ELSE {cand}

\* _ensure_ids(nodes, seen, prefix): the set of results the call can return,
\* one per outcome of the random draws; each result is the returned list and
\* the final content of the shared set seen.
RECURSIVE _ensure_ids(_, _, _)
_ensure_ids(nodes, seen, prefix) ==
    IF nodes = <<>>
    THEN {[out |-> <<>>, seen |-> seen]}
    ELSE LET n == Head(nodes)
         IN UNION { UNION { { [out  |-> <<[id |-> nid, title |-> n.title,
                                           children |-> c.out]>> \o r.out,
                               seen |-> r.seen]
                              : r \in _ensure_ids(Tail(nodes), c.seen, prefix) }
                            : c \in _ensure_ids(n.children, seen \cup {nid}, nid) }
                    : nid \in Resolved(Candidate(n, prefix), seen) }

-----------------------------------------------------------------------------
(* Inputs of _ensure_ids                                                   *)

\* Largest number of nodes (at all depths) of an input forest.
MaxNodes == 2

\* Explicit ids a raw node may carry; <<>> is "no id".
ExplicitIds == { <<>>, <<"A">>, <<"a","-","0","0","0","0">> }

\* Titles: empty, plain, one that slugifies to nothing, one with upper case,
\* a space and a dropped character.
Titles == { <<>>, <<"a">>, <<"!">>, <<"A"," ","b","!">> }

\* Forests with exactly n nodes; the first tree has k nodes below its root.
RECURSIVE ForestsOfSize(_)
ForestsOfSize(n) ==
    IF n = 0 THEN { <<>> }
    ELSE UNION { { <<[id |-> i, title |-> t, children |-> kids]>> \o rest
                   : i \in ExplicitIds, t \in Titles,
                     kids \in ForestsOfSize(k),
                     rest \in ForestsOfSize(n - 1 - k) }
                 : k \in 0..(n - 1) }

Forests == UNION { ForestsOfSize(n) : n \in 0..MaxNodes }

\* Contents of seen at call time: empty (seen=None), and sets that hold the
\* empty id, a slug, and a slug together with a suffixed form of it.
SeenChoices ==
    { {}, { <<>> }, { <<"a">> }, { <<"a">>, <<"a","-","0","0","0","0">> } }

\* Prefixes of the call sites: "" (lines 136, 493) and a node id (line 174).
Prefixes == { <<>>, <<"a">> }

\* The ids of a forest, in depth-first order.
RECURSIVE IdList(_)
IdList(forest) ==
    IF forest = <<>> THEN <<>>
    ELSE <<Head(forest).id>> \o IdList(Head(forest).children)
                             \o IdList(Tail(forest))

\* The variables of _ensure_ids when no call is modelled.
IdOff ==
    /\ idPhase = "off"
    /\ idNodes = <<>>
    /\ idSeen0 = {}
    /\ idPrefix = <<>>
    /\ idOut = <<>>
    /\ idSeen = {}
    /\ idAgain = <<>>

\* The variables of the caption rules when they are not modelled alone.
CapOff ==
    /\ capPhase = "off"
    /\ capRaw = <<>>
    /\ capTitle = <<>>
    /\ capOut = <<>>

\* A request body: node.title, node.id, topic, content, and the address of
\* the client (request.remote_addr).
NoBody == [title |-> <<>>, id |-> <<>>, topic |-> <<>>, content |-> <<>>,
           addr |-> "None"]

\* A thread that serves no request. The field calls is history: the calls
\* to the generation service the request has made so far, in order.
Idle == [pc |-> "idle", body |-> NoBody, cache_key |-> <<>>,
         user_key |-> <<>>, image_prompt |-> <<>>, raw |-> <<>>,
         caption |-> <<>>, calls |-> <<>>]

\* No response returned yet.
NoResponse == [status |-> 0, imageUrl |-> <<>>, caption |-> <<>>,
               cached |-> FALSE, fallback |-> FALSE, body |-> NoBody,
               prompt |-> <<>>, raw |-> <<>>, calls |-> <<>>]

\* The variables of visualize when the handler is not modelled.
VizOff ==
    /\ visualization_cache = <<>>
    /\ user_daily_limits = <<>>
    /\ today = 1
    /\ req = <<>>
    /\ response = NoResponse
    /\ served = 0
    /\ firstResult = <<>>

\* No eligibility request in flight.
EligIdle == [pc |-> "idle", body |-> NoBody]

\* No eligibility response returned yet.
NoEligResponse == [status |-> 0, ok |-> FALSE, score |-> 0, calls |-> 0,
                   reply |-> "none", body |-> NoBody]

\* The variables of visualize_eligibility when it is not modelled.
EligOff ==
    /\ elig = EligIdle
    /\ eligResponse = NoEligResponse

IdInit ==
    /\ CapOff
    /\ VizOff
    /\ EligOff
    /\ idPhase = "input"
    /\ idNodes \in Forests
    /\ idSeen0 \in SeenChoices
    /\ idPrefix \in Prefixes
    /\ idOut = <<>>
    /\ idSeen = {}
    /\ idAgain = <<>>

\* One call _ensure_ids(idNodes, idSeen0, idPrefix).
CallEnsureIds ==
    /\ idPhase = "input"
    /\ \E r \in _ensure_ids(idNodes, idSeen0, idPrefix) :
          /\ idOut' = r.out
          /\ idSeen' = r.seen
    /\ idPhase' = "done"
    /\ UNCHANGED <<idNodes, idSeen0, idPrefix, idAgain, capVars, vizVars,
                   eligVars>>

\* A second call on the returned list, _ensure_ids(idOut, prefix=idPrefix):
\* seen=None makes a fresh set (lines 36-37).
CallEnsureIdsAgain ==
    /\ idPhase = "done"
    /\ \E r \in _ensure_ids(idOut, {}, idPrefix) : idAgain' = r.out
    /\ idPhase' = "again"
    /\ UNCHANGED <<idNodes, idSeen0, idPrefix, idOut, idSeen, capVars,
                   vizVars, eligVars>>

IdNext ==
    \/ CallEnsureIds
    \/ CallEnsureIdsAgain

IdSpec == IdInit /\ [][IdNext]_vars

-----------------------------------------------------------------------------
(* The caption rules of visualize                                           *)

\* The most words a caption keeps (line 757).
MaxCaptionWords == 25

Ellipsis == <<".", ".", ".">>

\* f"Visualization for {title}" (line 761).
Substitute(title) ==
    <<"V","i","s","u","a","l","i","z","a","t","i","o","n"," ","f","o","r"," ">>
        \o title

\* Lines 756-758 with a wrong comparison: a caption of exactly 25 words is cut.
TruncateWords_CutsAtLimit(caption) ==
    LET words == PyWords(caption)
    IN  IF Len(words) >= MaxCaptionWords
        THEN JoinSpace(SubSeq(words, 1, MaxCaptionWords)) \o Ellipsis
        ELSE caption

\* Lines 756-758: words = caption.split(); more than 25 words are cut to the
\* first 25, joined by one space, and "..." is appended.
TruncateWords(caption) ==
    LET words == PyWords(caption)
    IN  IF Len(words) > MaxCaptionWords
        THEN JoinSpace(SubSeq(words, 1, MaxCaptionWords)) \o Ellipsis
        ELSE caption

\* Lines 751-754: sentences = caption.split('.'); the FIRST piece, stripped,
\* with a period appended unless it ends with one.
FirstSentence(caption) ==
    LET first == StripChars(PySplit(caption, ".")[1], Whitespace)
    IN  IF EndsWith(first, ".") THEN first ELSE first \o <<".">>

\* Lines 746-761: the caption visualize returns and caches, from the raw
\* caption of the plan and the node title. The rules apply only to a
\* non-empty raw caption (`if caption:`); the substitute only when the
\* caption is empty after them (`if not caption:`).
SanitizeCaption(raw, title) ==
    LET ruled == IF raw # <<>> THEN TruncateWords(FirstSentence(raw)) ELSE raw
    IN  IF ruled = <<>> THEN Substitute(title) ELSE ruled

-----------------------------------------------------------------------------
(* Inputs of the caption rules                                             *)

\* Every string over CapChars of at most MaxRawLen characters is an input.
MaxRawLen == 4

\* The longest captions have MaxWords words.
MaxWords == 27

CapChars == {"w", " ", "."}

RECURSIVE StringsUpTo(_)
StringsUpTo(n) ==
    IF n = 0 THEN { <<>> }
    ELSE StringsUpTo(n - 1)
         \cup { <<c>> \o t : c \in CapChars,
                             t \in { u \in StringsUpTo(n - 1) : Len(u) = n - 1 } }

\* Word number i: two characters, so that the words of a caption differ.
WordNo(i) == <<"w", HexDigits[(i % 16) + 1]>>

\* k words, separated by sep.
RECURSIVE WordRun(_, _)
WordRun(k, sep) ==
    IF k = 0 THEN <<>>
    ELSE IF k = 1 THEN WordNo(1)
    ELSE WordRun(k - 1, sep) \o sep \o WordNo(k)

\* Long captions: around the limit of 25 words, with one or two spaces
\* between the words, something before and something after.
LongCaptions ==
    { pre \o WordRun(k, sep) \o post :
        k \in (MaxCaptionWords - 2)..MaxWords,
        sep \in { <<" ">>, <<" ", " ">> },
        pre \in { <<>>, <<" ">>, <<".">> },
        post \in { <<>>, <<".">>, <<" ">>, <<" ", ".", "w">>, <<".", "w", " ", "w">> } }

RawCaptions == StringsUpTo(MaxRawLen) \cup LongCaptions

\* Node titles that pass `if not node.get("title")`.
CapTitles == { <<"T">>, <<"T", ".">>, <<"A", " ", "b">> }

CaptionInit ==
    /\ IdOff
    /\ VizOff
    /\ EligOff
    /\ capPhase = "input"
    /\ capRaw \in RawCaptions
    /\ capTitle \in CapTitles
    /\ capOut = <<>>

\* Lines 746-761 on (capRaw, capTitle).
ApplyCaptionRules ==
    /\ capPhase = "input"
    /\ capOut' = SanitizeCaption(capRaw, capTitle)
    /\ capPhase' = "done"
    /\ UNCHANGED <<capRaw, capTitle, idVars, vizVars, eligVars>>

CaptionNext == ApplyCaptionRules

CaptionSpec == CaptionInit /\ [][CaptionNext]_vars

-----------------------------------------------------------------------------
(* /api/visualize                                                          *)
(*                                                                         *)
(* Flask serves each request on its own thread, and the handler blocks in  *)
(* its two calls to the Generation Service, so a request is three steps:   *)
(* Begin (lines 678-742, up to the planning call), PlanReturns/PlanFails   *)
(* (lines 744-772, up to the image call) and ImageReturns/ImageFails       *)
(* (lines 774-808). Request bodies are JSON objects with a node object;    *)
(* the fields of a plan are strings or missing.                            *)

\* Serving threads.
MaxThreads == 2

\* Requests the model lets begin in one run.
MaxRequests == 3

\* Calendar days the run spans.
MaxDay == 2

Threads == 1..MaxThreads

\* user_daily_limits[user_key] >= 20 (line 709).
DailyLimit == 20

\* str(hash(content))[:16] (line 687).
HashLen == 16

\* hash(image_prompt) % 1000 (line 795).
PlaceholderRange == 1000

\* (topic, node id, content) of the requests. The first two differ in topic
\* and node id, the third differs from the first in content only.
Triples ==
    { [topic |-> <<"a">>, id |-> <<"b", ":", "c">>, content |-> <<"x">>],
      [topic |-> <<"a", ":", "b">>, id |-> <<"c">>, content |-> <<"x">>],
      [topic |-> <<"a">>, id |-> <<"b", ":", "c">>, content |-> <<>>] }

\* request.remote_addr: missing, or an address.
Addrs == { "None", "10.0.0.1" }

\* Requests with a node title, and requests without one.
ValidBodies ==
    { [title |-> <<"T">>, id |-> tr.id, topic |-> tr.topic,
       content |-> tr.content, addr |-> a] : tr \in Triples, a \in Addrs }

UntitledBodies ==
    { [b EXCEPT !.title = <<>>] : b \in { v \in ValidBodies : v.content = <<>> } }

Bodies == ValidBodies \cup UntitledBodies

TripleOf(body) ==
    [topic |-> body.topic, id |-> body.id, content |-> body.content]

\* What the planning reply can hold: "prompt" and "caption", each a string
\* or missing (.get(..., "")).
Plans ==
    { [prompt |-> <<"p">>, caption |-> <<"w", " ", "w">>],
      [prompt |-> <<>>,    caption |-> <<>>] }

\* URLs the image service returns.
Urls == { <<"img", 1>>, <<"img", 2>> }

\* str(hash(content)) in this process: hash("") is 0; the hash of another
\* string is some 64-bit integer.
StrOfHash(content) ==
    IF content = <<>> THEN <<"0">>
    ELSE <<"1","2","3","4","5","6","7","8","9","0","1","2","3","4","5","6","7","8","9">>

\* hash(image_prompt) in this process.
HashOfPrompt(prompt) == IF prompt = <<>> THEN 0 ELSE 5417

\* s[:n]
Prefix(s, n) == SubSeq(s, 1, IF Len(s) < n THEN Len(s) ELSE n)

\* Lines 687-688: cache_key = f"{topic}:{node.get('id', '')}:{content_hash}".
CacheKey(body) ==
    body.topic \o <<":">> \o body.id \o <<":">>
        \o Prefix(StrOfHash(body.content), HashLen)

\* Line 702: client_ip = request.remote_addr or "unknown".
ClientIp(addr) == IF addr = "None" THEN "unknown" ELSE addr

\* Lines 703-704: user_key = f"{client_ip}:{today}". The date is printed in
\* a fixed width, so the string determines the pair and the pair is kept.
UserKey(body, day) == <<ClientIp(body.addr), day>>

\* The counter of a key, 0 when the key is not in user_daily_limits.
Count(limits, k) == IF k \in DOMAIN limits THEN limits[k] ELSE 0

\* Line 709 with the comparison off by one.
QuotaExceeded_Strict(n) == n > DailyLimit

\* Line 709: user_daily_limits[user_key] >= 20.
QuotaExceeded(n) == n >= DailyLimit

\* Lines 706-707 with the counter created at 1.
LazyCounter_CountsAdmission(limits, user_key) ==
    IF user_key \in DOMAIN limits THEN limits
    ELSE [k \in DOMAIN limits \cup {user_key} |->
            IF k = user_key THEN 1 ELSE limits[k]]

\* Lines 706-707: if user_key not in user_daily_limits:
\* user_daily_limits[user_key] = 0.
LazyCounter(limits, user_key) ==
    IF user_key \in DOMAIN limits THEN limits
    ELSE [k \in DOMAIN limits \cup {user_key} |->
            IF k = user_key THEN 0 ELSE limits[k]]

\* Line 795: the placeholder URL, picsum.photos/...?random=<hash % 1000>.
FallbackUrl(image_prompt) ==
    <<"picsum", HashOfPrompt(image_prompt) % PlaceholderRange>>

\* Lines 798-801 left out: the fallback is not cached.
CacheFallback_Skipped(cache, key, url, caption) == cache

\* Lines 798-801: visualization_cache[cache_key] = {imageUrl, caption}.
CacheFallback(cache, key, url, caption) ==
    [k \in DOMAIN cache \cup {key} |->
        IF k = key THEN [imageUrl |-> url, caption |-> caption] ELSE cache[k]]

\* Lines 778-781: visualization_cache[cache_key] = {imageUrl, caption}.
CacheResult(cache, key, url, caption) ==
    [k \in DOMAIN cache \cup {key} |->
        IF k = key THEN [imageUrl |-> url, caption |-> caption] ELSE cache[k]]

\* Requests begun so far.
Started == served + Cardinality({ t \in Threads : req[t].pc # "idle" })

\* The history variable: the first artifact returned for a triple.
Remember(body, url, caption) ==
    IF TripleOf(body) \in DOMAIN firstResult
    THEN firstResult
    ELSE [tr \in DOMAIN firstResult \cup {TripleOf(body)} |->
            IF tr = TripleOf(body)
            THEN [imageUrl |-> url, caption |-> caption]
            ELSE firstResult[tr]]

\* A response to the request of thread t; the thread is free again.
Respond(t, r) ==
    /\ response' = r
    /\ served' = served + 1
    /\ req' = [req EXCEPT ![t] = Idle]

\* user_daily_limits at process start: empty, or the counter the client has
\* reached today with visualizations of fingerprints other than Triples.
StartLimits ==
    { <<>>, [k \in { <<"10.0.0.1", 1>> } |-> DailyLimit - 1] }

Init ==
    /\ IdOff
    /\ CapOff
    /\ EligOff
    /\ visualization_cache = <<>>
    /\ user_daily_limits \in StartLimits
    /\ today = 1
    /\ req = [t \in Threads |-> Idle]
    /\ response = NoResponse
    /\ served = 0
    /\ firstResult = <<>>

\* Lines 678-742: a request arrives on thread t. Missing title: 400. Cache
\* hit: the cached entry. Counter at the limit: 429. Otherwise the planning
\* call is made.
Begin(t, body) ==
    /\ req[t].pc = "idle"
    /\ Started < MaxRequests
    /\ LET cache_key == CacheKey(body)
           user_key  == UserKey(body, today)
           limits    == LazyCounter(user_daily_limits, user_key)
       IN  IF body.title = <<>>
           THEN /\ Respond(t, [NoResponse EXCEPT !.status = 400, !.body = body])
                /\ UNCHANGED <<visualization_cache, user_daily_limits>>
           ELSE IF cache_key \in DOMAIN visualization_cache
           THEN /\ Respond(t, [NoResponse EXCEPT
                        !.status = 200,
                        !.imageUrl = visualization_cache[cache_key].imageUrl,
                        !.caption = visualization_cache[cache_key].caption,
                        !.cached = TRUE,
                        !.body = body])
                /\ UNCHANGED <<visualization_cache, user_daily_limits>>
           ELSE IF QuotaExceeded(limits[user_key])
           THEN /\ Respond(t, [NoResponse EXCEPT !.status = 429, !.body = body])
                /\ user_daily_limits' = limits
                /\ UNCHANGED visualization_cache
           ELSE /\ req' = [req EXCEPT ![t] =
                        [Idle EXCEPT !.pc = "planning", !.body = body,
                                     !.cache_key = cache_key,
                                     !.user_key = user_key,
                                     !.calls = <<"plan">>]]
                /\ user_daily_limits' = limits
                /\ UNCHANGED <<visualization_cache, response, served>>
    /\ UNCHANGED <<today, firstResult, idVars, capVars, eligVars>>

\* Lines 744-772: the planning call returns a plan; the caption rules are
\* applied and the image call is made.
PlanReturns(t, plan) ==
    /\ req[t].pc = "planning"
    /\ req' = [req EXCEPT ![t] =
                 [@ EXCEPT !.pc = "generating",
                           !.image_prompt = plan.prompt,
                           !.raw = plan.caption,
                           !.caption = SanitizeCaption(plan.caption,
                                                       req[t].body.title),
                           !.calls = Append(@, "image")]]
    /\ UNCHANGED <<visualization_cache, user_daily_limits, today, response,
                   served, firstResult, idVars, capVars, eligVars>>

\* Lines 733-744 with the failed planning call made once more.
PlanFails_Retries(t) ==
    /\ req[t].pc = "planning"
    /\ req' = [req EXCEPT ![t].calls = Append(@, "plan")]
    /\ UNCHANGED <<visualization_cache, user_daily_limits, today, response,
                   served, firstResult, idVars, capVars, eligVars>>

\* Lines 733-744 and 810-811: the planning call raises, or its reply is no
\* JSON; the outer handler answers 500.
PlanFails(t) ==
    /\ req[t].pc = "planning"
    /\ Respond(t, [NoResponse EXCEPT !.status = 500, !.body = req[t].body,
                                     !.calls = req[t].calls])
    /\ UNCHANGED <<visualization_cache, user_daily_limits, today,
                   firstResult, idVars, capVars, eligVars>>

\* Lines 774-790: the image call returns a URL: cache, count, answer.
ImageReturns(t, url) ==
    /\ req[t].pc = "generating"
    /\ visualization_cache' =
          CacheResult(visualization_cache, req[t].cache_key, url, req[t].caption)
    /\ user_daily_limits' =
          [user_daily_limits EXCEPT ![req[t].user_key] = @ + 1]
    /\ firstResult' = Remember(req[t].body, url, req[t].caption)
    /\ Respond(t, [NoResponse EXCEPT
            !.status = 200, !.imageUrl = url, !.caption = req[t].caption,
            !.body = req[t].body, !.prompt = req[t].image_prompt,
            !.raw = req[t].raw, !.calls = req[t].calls])
    /\ UNCHANGED <<today, idVars, capVars, eligVars>>

\* Lines 792-808: the image call raises: placeholder URL, cache, answer with
\* "fallback": True. user_daily_limits is not touched.
ImageFails(t) ==
    /\ req[t].pc = "generating"
    /\ LET fallback_url == FallbackUrl(req[t].image_prompt)
       IN  /\ visualization_cache' =
                 CacheFallback(visualization_cache, req[t].cache_key,
                               fallback_url, req[t].caption)
           /\ firstResult' = Remember(req[t].body, fallback_url, req[t].caption)
           /\ Respond(t, [NoResponse EXCEPT
                   !.status = 200, !.imageUrl = fallback_url,
                   !.caption = req[t].caption, !.fallback = TRUE,
                   !.body = req[t].body, !.prompt = req[t].image_prompt,
                   !.raw = req[t].raw, !.calls = req[t].calls])
    /\ UNCHANGED <<user_daily_limits, today, idVars, capVars, eligVars>>

\* Line 703: datetime.date.today() moves on.
NewDay ==
    /\ today < MaxDay
    /\ today' = today + 1
    /\ UNCHANGED <<visualization_cache, user_daily_limits, req, response,
                   served, firstResult, idVars, capVars, eligVars>>

Next ==
    \/ \E t \in Threads, body \in Bodies : Begin(t, body)
    \/ \E t \in Threads, plan \in Plans : PlanReturns(t, plan)
    \/ \E t \in Threads : PlanFails(t)
    \/ \E t \in Threads, url \in Urls : ImageReturns(t, url)
    \/ \E t \in Threads : ImageFails(t)
    \/ NewDay

Spec == Init /\ [][Next]_vars

-----------------------------------------------------------------------------
(* The /api/visualize/eligibility handler                                  *)
(*                                                                         *)
(* visualize_eligibility (lines 605-668) keeps no state of its own and     *)
(* names neither visualization_cache nor user_daily_limits. One request is *)
(* two steps around the blocking classification call: EligBegin (lines     *)
(* 609-659) and EligReturns/EligFails (lines 661-668). The dictionaries    *)
(* are as earlier visualize requests of the process have left them.        *)

\* The "score" values of a reply (the prompt asks for 0-10).
EligScores == { 0, 7, 10 }

\* The reply of the classification call when json.loads accepts it: the
\* object the prompt and response_format ask for.
EligVerdicts == { [ok |-> o, score |-> n] : o \in BOOLEAN, n \in EligScores }

\* Lines 666-668 left out: the error is answered as a 500.
EligibilityDefault_Propagates(calls, reply, body) ==
    [status |-> 500, ok |-> FALSE, score |-> 0, calls |-> calls,
     reply |-> reply, body |-> body]

\* Lines 615 and 668: {"ok": False, "score": 0, "rationale": ...}, answered
\* with status 200.
EligibilityDefault(calls, reply, body) ==
    [status |-> 200, ok |-> FALSE, score |-> 0, calls |-> calls,
     reply |-> reply, body |-> body]

\* visualization_cache as one earlier visualize request leaves it.
EligCaches ==
    { <<>>,
      CacheResult(<<>>, CacheKey(CHOOSE b \in ValidBodies : b.content = <<>>),
                  <<"img", 1>>, Substitute(<<"T">>)) }

EligInit ==
    /\ IdOff
    /\ CapOff
    /\ visualization_cache \in EligCaches
    /\ user_daily_limits \in StartLimits
    /\ today = 1
    /\ req = [t \in Threads |-> Idle]
    /\ response = NoResponse
    /\ served = 0
    /\ firstResult = <<>>
    /\ EligOff

\* Lines 609-659: a request arrives. No node title: the default verdict,
\* at once. Otherwise the classification call is made.
EligBegin(body) ==
    /\ elig.pc = "idle"
    /\ IF body.title = <<>>
       THEN /\ eligResponse' = EligibilityDefault(0, "none", body)
            /\ elig' = EligIdle
       ELSE /\ elig' = [pc |-> "classifying", body |-> body]
            /\ UNCHANGED eligResponse
    /\ UNCHANGED <<idVars, capVars, vizVars>>

\* Lines 661-664: the call returns text that json.loads accepts; the parsed
\* object is the answer.
EligReturns(verdict) ==
    /\ elig.pc = "classifying"
    /\ eligResponse' = [status |-> 200, ok |-> verdict.ok,
                        score |-> verdict.score, calls |-> 1,
                        reply |-> "verdict", body |-> elig.body]
    /\ elig' = EligIdle
    /\ UNCHANGED <<idVars, capVars, vizVars>>

\* Lines 650-662 and 666-668: the call raises, or json.loads rejects the
\* reply; the default verdict is the answer.
EligFails ==
    /\ elig.pc = "classifying"
    /\ eligResponse' = EligibilityDefault(1, "failed", elig.body)
    /\ elig' = EligIdle
    /\ UNCHANGED <<idVars, capVars, vizVars>>

EligNext ==
    \/ \E body \in Bodies : EligBegin(body)
    \/ \E verdict \in EligVerdicts : EligReturns(verdict)
    \/ EligFails

EligSpec == EligInit /\ [][EligNext]_vars

-----------------------------------------------------------------------------
\* C1: after _ensure_ids returns, no two nodes of the returned tree, at any
\* depth, share an id, and no id of the returned tree was already in the
\* seen set at call time, whatever the random suffix is.
C1_IdsUnique ==
    idPhase = "done" =>
        LET ids == IdList(idOut)
        IN  /\ \A i, j \in 1..Len(ids) : i # j => ids[i] # ids[j]
            /\ \A i \in 1..Len(ids) : ids[i] \notin idSeen0

\* C2: _ensure_ids never assigns an empty id.
C2_IdsNonEmpty ==
    idPhase = "done" => \A i \in 1..Len(IdList(idOut)) : IdList(idOut)[i] # <<>>

\* A request of thread t completes with an artifact (Succeeded or Fallback)
\* in this step.
ArtifactStep(t) == req[t].pc = "generating" /\ req'[t].pc = "idle"

\* C3: once a request for a triple (topic, node id, content) has completed
\* as Succeeded or Fallback, every later request with a node title and the
\* same triple, from any client, is answered with the imageUrl and caption
\* of that first result, makes no Generation Service call and leaves
\* user_daily_limits as it is.
C3_RepeatReturnsFirstResult ==
    [][ \A t \in Threads, b \in ValidBodies :
          (TripleOf(b) \in DOMAIN firstResult /\ Begin(t, b)) =>
              /\ response'.status = 200
              /\ response'.imageUrl = firstResult[TripleOf(b)].imageUrl
              /\ response'.caption = firstResult[TripleOf(b)].caption
              /\ req'[t].pc = "idle"
              /\ user_daily_limits' = user_daily_limits ]_vars

\* C4: the counter of a user key grows by exactly 1 in a step in which a
\* request with that key completes with an artifact, Succeeded or Fallback,
\* and does not change, up or down, in any other step.
C4_CounterCountsArtifacts ==
    [][ \A k \in DOMAIN user_daily_limits' :
          Count(user_daily_limits', k) - Count(user_daily_limits, k)
            = IF \E t \in Threads : ArtifactStep(t) /\ req[t].user_key = k
              THEN 1 ELSE 0 ]_vars

\* C5: an error response (400 or 500) is returned only to a request without
\* a node title; a request with a title whose Generation Service calls fail
\* gets a result, never an error.
C5_ErrorsOnlyForBadInput ==
    response.status \in {400, 500} => response.body.title = <<>>

\* C6: when planning succeeded and the image call fails, the response is a
\* success marked "fallback" whose imageUrl is the placeholder of the plan's
\* prompt alone, the cache holds that placeholder and the sanitized caption
\* under the request's cache key, and the next request with the same triple
\* is a cache hit that makes no Generation Service call.
C6_FallbackIsCached ==
    [][ /\ \A t \in Threads :
             ImageFails(t) =>
               LET url == <<"picsum", HashOfPrompt(req[t].image_prompt)
                                         % PlaceholderRange>>
                   cap == SanitizeCaption(req[t].raw, req[t].body.title)
                   key == CacheKey(req[t].body)
               IN  /\ response'.status = 200
                   /\ response'.fallback
                   /\ response'.imageUrl = url
                   /\ response'.caption = cap
                   /\ key \in DOMAIN visualization_cache'
                   /\ visualization_cache'[key] = [imageUrl |-> url, caption |-> cap]
        /\ \A t \in Threads, b \in ValidBodies :
             (response.fallback /\ TripleOf(b) = TripleOf(response.body)
                /\ Begin(t, b)) =>
               /\ response'.cached
               /\ response'.imageUrl = response.imageUrl
               /\ response'.caption = response.caption
               /\ req'[t].pc = "idle" ]_vars

\* C6's case: the request answered last ended in the fallback and its
\* placeholder is in the cache.
C6_Witness ==
    /\ response.fallback
    /\ CacheKey(response.body) \in DOMAIN visualization_cache
    /\ visualization_cache[CacheKey(response.body)].imageUrl = response.imageUrl

\* C7: a request with a title that misses the cache is answered 429, with
\* no Generation Service call, exactly when the counter of (its client, the
\* current day) is 20 or more, and goes on to the planning call otherwise;
\* no other counter matters, and a key of a new day starts at 0.
C7_RejectedExactlyAtLimit ==
    [][ \A t \in Threads, b \in ValidBodies :
          (CacheKey(b) \notin DOMAIN visualization_cache /\ Begin(t, b)) =>
              IF Count(user_daily_limits, <<ClientIp(b.addr), today>>) >= DailyLimit
              THEN /\ response'.status = 429
                   /\ served' = served + 1
                   /\ req'[t].pc = "idle"
              ELSE /\ req'[t].pc = "planning"
                   /\ served' = served
                   /\ response' = response ]_vars

\* C7's case: a client was answered 429 on day 1, and on day 2 a request of
\* the same client is at its planning call.
C7_Witness ==
    /\ response.status = 429
    /\ today = 2
    /\ \E t \in Threads :
          /\ req[t].pc = "planning"
          /\ req[t].user_key = <<ClientIp(response.body.addr), 2>>
          /\ Count(user_daily_limits, <<ClientIp(response.body.addr), 1>>)
                >= DailyLimit

\* C8: for every raw caption and node title, the caption visualize returns
\* and caches has at least 1 character and at most 25 whitespace-separated
\* words and ends with "." (the ellipsis marker "..." ends with "." too).
C8_CaptionBounded ==
    capPhase = "done" =>
        /\ Len(capOut) >= 1
        /\ Len(PyWords(capOut)) <= MaxCaptionWords
        /\ EndsWith(capOut, ".")

\* The first sentence of a raw caption: the text before its first period,
\* without the whitespace around it.
C9_Sentence == StripChars(PySplit(capRaw, ".")[1], Whitespace)

C9_Periods(s) == Cardinality({ i \in 1..Len(s) : s[i] = "." })

\* C9: when the first sentence of the raw caption has more than 25 words,
\* the caption is its first 25 words joined by single spaces and then "..."
\* (no other period); when it has 1 to 25 words, the caption is that
\* sentence, all its words kept, and exactly one period, at the end.
C9_TruncateOrPeriod ==
    (capPhase = "done" /\ capRaw # <<>>) =>
        LET words == PyWords(C9_Sentence)
            n     == Len(words)
        IN  /\ n > MaxCaptionWords =>
                /\ capOut = JoinSpace(SubSeq(words, 1, MaxCaptionWords)) \o Ellipsis
                /\ C9_Periods(capOut) = 3
            /\ (n >= 1 /\ n <= MaxCaptionWords) =>
                /\ capOut = C9_Sentence \o <<".">>
                /\ PyWords(SubSeq(capOut, 1, Len(capOut) - 1)) = words
                /\ C9_Periods(capOut) = 1

\* C9's case: a first sentence of more than 25 words has been cut.
C9_Witness ==
    /\ capPhase = "done"
    /\ Len(PyWords(C9_Sentence)) > MaxCaptionWords
    /\ Len(PyWords(capOut)) = MaxCaptionWords

\* The period-delimited segments of the raw caption that contain text.
C10_TextSegments ==
    SelectSeq(PySplit(capRaw, "."), LAMBDA g : StripChars(g, Whitespace) # <<>>)

\* C10: the caption is made of the first period-delimited segment of the
\* raw caption that contains text (empty leading segments are skipped);
\* only when no segment contains text it is "Visualization for <title>.".
C10_FirstNonEmptySegment ==
    capPhase = "done" =>
        IF C10_TextSegments = <<>>
        THEN capOut = Substitute(capTitle) \o <<".">>
        ELSE LET words == PyWords(C10_TextSegments[1])
             IN  IF Len(words) > MaxCaptionWords
                 THEN PyWords(capOut)
                        = PyWords(JoinSpace(SubSeq(words, 1, MaxCaptionWords)) \o Ellipsis)
                 ELSE PyWords(capOut) = PyWords(C10_TextSegments[1] \o <<".">>)


\* C11: the eligibility check answers every request with status 200 and a
\* verdict (a boolean ok and a score of 0..10), never with an error; a
\* request without node title gets ok = FALSE and score 0 with no call to
\* the classification service; a request whose call raises or whose reply
\* does not parse gets ok = FALSE and score 0; a reply that parses is the
\* answer; and no step of the handler changes visualization_cache or
\* user_daily_limits.
C11_Answered ==
    eligResponse # NoEligResponse =>
        /\ eligResponse.status = 200
        /\ eligResponse.ok \in BOOLEAN
        /\ eligResponse.score \in 0..10
        /\ eligResponse.calls <= 1
        /\ eligResponse.body.title = <<>> =>
              /\ eligResponse.ok = FALSE
              /\ eligResponse.score = 0
              /\ eligResponse.calls = 0
        /\ eligResponse.reply = "failed" =>
              /\ eligResponse.ok = FALSE
              /\ eligResponse.score = 0

C12_WritesOnlyOnArtifact ==
    [][ (\A t \in Threads : ~ArtifactStep(t)) =>
            /\ visualization_cache' = visualization_cache
            /\ user_daily_limits' = user_daily_limits ]_vars

\* C12, amended: outside the step in which a request reaches Succeeded or
\* Fallback, visualization_cache is not written, no counter changes its
\* value (a missing counter counting as 0) and no key is removed; a request
\* answered as input error or as Rejected, and the step in which planning
\* fails, leave both dictionaries exactly as they were; the one write
\* before the end of a request is made by a request that passes the quota
\* check, which creates its own (client, day) counter at 0 if there is none.
C12_ArtifactOrLazyCounter ==
    [][ (\A t \in Threads : ~ArtifactStep(t)) =>
            /\ visualization_cache' = visualization_cache
            /\ DOMAIN user_daily_limits \subseteq DOMAIN user_daily_limits'
            /\ \A k \in DOMAIN user_daily_limits' :
                  Count(user_daily_limits', k) = Count(user_daily_limits, k)
            /\ DOMAIN user_daily_limits' \ DOMAIN user_daily_limits \subseteq
                  { req'[t].user_key :
                      t \in { u \in Threads : /\ req[u].pc = "idle"
                                              /\ req'[u].pc = "planning" } }
            /\ (served' # served /\ response'.status \in {400, 429, 500}) =>
                  user_daily_limits' = user_daily_limits ]_vars

\* C12 happens: a request was admitted with no counter of its own, its
\* planning call failed, and its counter is in the table with value 0.
C12_Witness ==
    /\ response.status = 500
    /\ \E d \in 1..MaxDay :
          /\ UserKey(response.body, d) \in DOMAIN user_daily_limits
          /\ user_daily_limits[UserKey(response.body, d)] = 0

\* C13: in every interleaving of concurrent requests, a cache entry, once
\* it exists, is never removed and never overwritten with another imageUrl
\* or caption.
C13_EntriesNeverOverwritten ==
    [][ \A k \in DOMAIN visualization_cache :
            /\ k \in DOMAIN visualization_cache'
            /\ visualization_cache'[k] = visualization_cache[k] ]_vars

\* C14: in every interleaving of concurrent requests, no (client, day)
\* counter exceeds the daily ceiling of 20.
C14_CounterWithinCeiling ==
    \A k \in DOMAIN user_daily_limits : user_daily_limits[k] <= DailyLimit

\* The nodes of a call in the order in which ids are assigned to them (a
\* node, then its children, then its next sibling), each with the id it
\* has in the returned tree and the id of its parent in the returned tree
\* (the prefix argument for a top-level node).
RECURSIVE C15_Visits(_, _, _)
C15_Visits(nodes, out, prefix) ==
    IF nodes = <<>> \/ out = <<>> THEN <<>>
    ELSE <<[node |-> Head(nodes), id |-> Head(out).id, prefix |-> prefix]>>
         \o C15_Visits(Head(nodes).children, Head(out).children, Head(out).id)
         \o C15_Visits(Tail(nodes), Tail(out), prefix)

\* C15: in the tree _ensure_ids returns, the candidate of a node is its
\* explicit id, verbatim, when that is non-empty, and otherwise the slug of
\* prefix + "/" + title without outer slashes, the prefix of a child being
\* the id its parent has in the returned tree; a node whose candidate is
\* neither in the seen set at call time nor the id of a node assigned
\* earlier in the call gets the candidate as id, and any other node gets
\* the candidate, "-" and exactly 4 hexadecimal characters.
C15_IdsAsSpecified ==
    idPhase = "done" =>
        LET v == C15_Visits(idNodes, idOut, idPrefix)
        IN  /\ Len(v) = Len(IdList(idNodes))
            /\ Len(v) = Len(IdList(idOut))
            /\ \A i \in 1..Len(v) :
                  LET seen == idSeen0 \cup { v[j].id : j \in 1..(i - 1) }
                      cand == IF v[i].node.id # <<>>
                              THEN v[i].node.id
                              ELSE StripChars(_slug(v[i].prefix \o <<"/">>
                                                    \o v[i].node.title), {"/"})
                      n    == Len(cand)
                  IN  IF cand \notin seen
                      THEN v[i].id = cand
                      ELSE /\ Len(v[i].id) = n + 5
                           /\ SubSeq(v[i].id, 1, n) = cand
                           /\ v[i].id[n + 1] = "-"
                           /\ \A j \in (n + 2)..(n + 5) :
                                 \E d \in 1..Len(HexDigits) :
                                    v[i].id[j] = HexDigits[d]

\* C15 happens: a node titled "a" whose candidate a was in the seen set got
\* a-0001, and its child titled "a" got a-0001/a.
C15_Witness ==
    /\ idPhase = "done"
    /\ Len(idOut) = 1
    /\ idNodes[1].id = <<>>
    /\ idOut[1].id = <<"a", "-", "0", "0", "0", "1">>
    /\ Len(idOut[1].children) = 1
    /\ idNodes[1].children[1].id = <<>>
    /\ idOut[1].children[1].id = <<"a", "-", "0", "0", "0", "1", "/", "a">>

\* The titles of a forest, in depth-first order.
RECURSIVE C18_Titles(_)
C18_Titles(forest) ==
    IF forest = <<>> THEN <<>>
    ELSE <<Head(forest).title>> \o C18_Titles(Head(forest).children)
                                \o C18_Titles(Tail(forest))

\* The forest without ids and titles.
RECURSIVE C18_Shape(_)
C18_Shape(forest) ==
    [i \in 1..Len(forest) |-> C18_Shape(forest[i].children)]

\* C18: _ensure_ids applied with a fresh seen set to a tree it has returned
\* returns the same tree: the same nodes in the same order, every node at
\* every depth with the id and the title it had.
C18_SecondCallKeepsIds ==
    idPhase = "again" =>
        /\ C18_Shape(idAgain) = C18_Shape(idOut)
        /\ C18_Titles(idAgain) = C18_Titles(idOut)
        /\ IdList(idAgain) = IdList(idOut)

\* C17: requests whose (topic, node id) pairs differ never have the same
\* cache key, so a request answered from the cache gets an entry that a
\* request with its own topic and its own node id has stored.
C17_HitOnlyOwnEntry ==
    [][ \A t \in Threads, b \in ValidBodies :
            (Begin(t, b) /\ served' # served /\ response'.cached) =>
                \E tr \in DOMAIN firstResult :
                    tr.topic = b.topic /\ tr.id = b.id ]_vars

\* The terminal outcomes a response can be, by its status and flags.
C16_Outcomes(r) ==
    { o \in {"input error", "hit", "rejected", "failed", "succeeded",
             "fallback"} :
        \/ o = "input error" /\ r.status = 400
        \/ o = "hit"         /\ r.status = 200 /\ r.cached
        \/ o = "rejected"    /\ r.status = 429
        \/ o = "failed"      /\ r.status = 500
        \/ o = "succeeded"   /\ r.status = 200 /\ ~r.cached /\ ~r.fallback
        \/ o = "fallback"    /\ r.status = 200 /\ r.fallback }

\* The calls of a request, in flight or answered, are none, the planning
\* call, or the planning call and then the image call; an answered request
\* has exactly one outcome, and has made no call when that is input error,
\* hit or rejected.
C16_Calls ==
    /\ \A t \in Threads :
          /\ req[t].calls \in { <<>>, <<"plan">>, <<"plan", "image">> }
          /\ req[t].pc = "idle" <=> req[t].calls = <<>>
          /\ req[t].pc = "generating" <=> req[t].calls = <<"plan", "image">>
    /\ response # NoResponse =>
          /\ Cardinality(C16_Outcomes(response)) = 1
          /\ \A o \in C16_Outcomes(response) :
                response.calls =
                    CASE o \in {"input error", "hit", "rejected"} -> <<>>
                      [] o = "failed" -> <<"plan">>
                      [] OTHER -> <<"plan", "image">>

\* The stages of a request that arrives, in their order: without title it
\* is an input error whatever the cache and the counter hold; with a title
\* and its key in the cache it is a hit whatever the counter holds; with
\* its counter at the limit it is rejected; otherwise the planning call is
\* made. A request in planning goes to the image call or fails; a request
\* in generation ends. Every step that ends a request returns one response.
C16_Order ==
    /\ \A t \in Threads, b \in Bodies :
          Begin(t, b) =>
             LET answered == served' = served + 1 /\ response'.body = b
                             /\ req'[t].pc = "idle"
             IN  IF b.title = <<>>
                 THEN answered /\ response'.status = 400
                 ELSE IF CacheKey(b) \in DOMAIN visualization_cache
                 THEN answered /\ response'.status = 200 /\ response'.cached
                 ELSE IF Count(user_daily_limits, UserKey(b, today))
                            >= DailyLimit
                 THEN answered /\ response'.status = 429
                 ELSE /\ served' = served
                      /\ req'[t].pc = "planning"
    /\ \A t \in Threads :
          /\ (req[t].pc = "planning" /\ req'[t] # req[t]) =>
                \/ req'[t].pc = "generating" /\ served' = served
                \/ /\ req'[t].pc = "idle"
                   /\ served' = served + 1
                   /\ response'.status = 500
          /\ (req[t].pc = "generating" /\ req'[t] # req[t]) =>
                /\ req'[t].pc = "idle"
                /\ served' = served + 1
                /\ response'.status = 200
                /\ ~response'.cached
    /\ served' \in {served, served + 1}

\* C16: a visualize request passes input validation, cache check, quota
\* check, planning and image generation in this order and ends with
\* exactly one outcome; it makes at most one planning call and at most one
\* image call, the image call only after the planning call has returned a
\* plan, makes no call a second time, and makes no call at all when it
\* ends as input error, cache hit or rejected.
C16_StagesInOrder == []C16_Calls /\ [][C16_Order]_vars

\* C16 happens: a request went through both calls and its result is in the
\* cache; after it a request for the same key without node title was
\* answered 400, having made no call.
C16_Witness ==
    /\ response.status = 400
    /\ response.calls = <<>>
    /\ CacheKey(response.body) \in DOMAIN visualization_cache
    /\ served = 2
    /\ \A t \in Threads : req[t].pc = "idle"
=============================================================================
